---- MODULE Spec2Model ----
(***************************************************************************)
(* Model of the Jenkins failure analyzer: the log scanner, classifier and  *)
(* normalizer of log_analyzer.py (LogAnalyzer) and the aggregation loop of *)
(* streaming_log_processor.py (StreamingLogProcessor).                     *)
(*                                                                         *)
(* Text is modelled character by character: a Python str is a sequence of  *)
(* one-character strings, and every regular expression of the source is an *)
(* operator that matches the same characters.                              *)
(***************************************************************************)
EXTENDS Integers, Sequences, FiniteSets, TLC

VARIABLES
    \* LogAnalyzer.extract_exception_from_log, called on one log
    log_content,          \* the argument log_content (a str)
    ignore_exceptions,    \* the argument ignore_exceptions (a list of str)
    extract_result,       \* <<>> before the call, <<r>> after it returns r
    \* LogAnalyzer._normalize_exception_line, called and called again
    exception_line,       \* the argument exception_line (a str)
    normalized,           \* the values returned so far, oldest first
    \* LogAnalyzer._extract_exception_type
    classified,           \* <<>> before the call, <<outcome>> after it
    \* StreamingLogProcessor.process_failed_builds
    pc,                   \* position in process_failed_builds
    jobs,                 \* the list returned by client.get_jobs()
    job_i,                \* index of the job of the outer for loop
    failures,             \* the list returned by client.get_failed_builds()
    build_i,              \* index of the build of the inner for loop
    job_has_failures,
    job_exceptions,       \* the nested (default)dict, as ordered dicts
    total_failed_jobs,
    total_failed_builds,
    returned,             \* <<>> until the return, then <<the returned tuple>>
    record_count,         \* history: (job, category) -> number of records made
    last_record,          \* history: <<>> or <<the record made by the last step>>
    \* main, after process_failed_builds has returned
    console_order,        \* <<>>, then <<what print_console_summary iterated>>
    slack_order,          \* <<>>, then <<what send_all_messages sorted>>
    \* JenkinsClient.get_failed_builds, called for one job; its local failures
    \* is the variable failures, its return value the variable returned
    limit,                \* the argument limit
    offset,               \* the local offset
    requests,             \* history: the number of calls of _json_get
    fallback_requests,    \* history: those of them that asked for builds{0,100}
    left_on               \* history: "" in the loop, then why it was left

vars == <<log_content, ignore_exceptions, extract_result, exception_line,
          normalized, classified, pc, jobs, job_i, failures, build_i, job_has_failures,
          job_exceptions, total_failed_jobs, total_failed_builds, returned,
          record_count, last_record, console_order, slack_order,
          limit, offset, requests, fallback_requests, left_on>>

textVars == <<log_content, ignore_exceptions, extract_result, exception_line,
              normalized, classified>>
runVars == <<pc, jobs, job_i, failures, build_i, job_has_failures,
             job_exceptions, total_failed_jobs, total_failed_builds, returned,
             record_count, last_record>>
viewVars == <<console_order, slack_order>>
clientVars == <<limit, offset, requests, fallback_requests, left_on>>
runVarsButPc == <<jobs, job_i, failures, build_i, job_has_failures,
                  job_exceptions, total_failed_jobs, total_failed_builds, returned,
                  record_count, last_record>>

-----------------------------------------------------------------------------
(* Characters and the str methods the source uses.                         *)

Digits == {"0", "1", "2", "3", "4", "5", "6", "7", "8", "9"}
UpperLetters == <<"A", "B", "C", "D", "E", "F", "G", "H", "I", "J", "K", "L", "M",
                  "N", "O", "P", "Q", "R", "S", "T", "U", "V", "W", "X", "Y", "Z">>
LowerLetters == <<"a", "b", "c", "d", "e", "f", "g", "h", "i", "j", "k", "l", "m",
                  "n", "o", "p", "q", "r", "s", "t", "u", "v", "w", "x", "y", "z">>
Range(f) == {f[i] : i \in DOMAIN f}
Letters == Range(UpperLetters) \cup Range(LowerLetters)
\* str.isupper() of one character
IsUpper(c) == c \in Range(UpperLetters)
\* \s of the re module, and the characters str.strip() and str.split() drop
Whitespace == {" ", "\t", "\n", "\r", "\f"}
\* str.lower() of one character
LowerChar(c) ==
    IF IsUpper(c)
    THEN LowerLetters[CHOOSE i \in DOMAIN UpperLetters : UpperLetters[i] = c]
    ELSE c
\* str.lower()
Lower(s) == [i \in DOMAIN s |-> LowerChar(s[i])]

\* s[i:] with a 1-based i
From(s, i) == SubSeq(s, i, Len(s))
\* s.startswith(p, i - 1): p occurs in s at the 1-based position i
OccursAt(s, i, p) ==
    /\ i >= 1
    /\ i + Len(p) - 1 <= Len(s)
    /\ SubSeq(s, i, i + Len(p) - 1) = p
\* p in s
Contains(s, p) == \E i \in 1..(Len(s) + 1) : OccursAt(s, i, p)
\* s.endswith(p)
EndsWith(s, p) == OccursAt(s, Len(s) - Len(p) + 1, p)
\* the number of leading characters of s[i:] that are in the set cls
RunLen(s, i, cls) ==
    LET S == {k \in i..Len(s) : s[k] \notin cls}
    IN  IF S # {} THEN (CHOOSE k \in S : \A j \in S : k <= j) - i
        ELSE IF i <= Len(s) THEN Len(s) - i + 1 ELSE 0
\* the number of trailing whitespace characters of s
TrailingSpace(s) ==
    LET S == {k \in 1..Len(s) : s[k] \notin Whitespace}
    IN  IF S = {} THEN Len(s) ELSE Len(s) - (CHOOSE k \in S : \A j \in S : j <= k)
\* str.strip()
Strip(s) ==
    LET a == RunLen(s, 1, Whitespace)
    IN  IF a = Len(s) THEN <<>>
        ELSE SubSeq(s, a + 1, Len(s) - TrailingSpace(s))
\* str.split('\n'): the pieces between the newlines, at least one piece
RECURSIVE SplitLines(_)
SplitLines(s) ==
    LET n == RunLen(s, 1, Range(s) \ {"\n"})
    IN  IF n = Len(s) THEN <<s>>
        ELSE <<SubSeq(s, 1, n)>> \o SplitLines(From(s, n + 2))
\* '\n'.join(ls)
RECURSIVE JoinLines(_)
JoinLines(ls) ==
    IF Len(ls) = 0 THEN <<>>
    ELSE IF Len(ls) = 1 THEN ls[1]
    ELSE ls[1] \o <<"\n">> \o JoinLines(Tail(ls))
\* the first whitespace-delimited token of s: s.split()[0], for s.split() # []
FirstWord(s) ==
    LET a == RunLen(s, 1, Whitespace)
    IN  SubSeq(s, a + 1, a + RunLen(s, a + 1, Range(s) \ Whitespace))
\* len(s.split()): the number of whitespace-delimited tokens of s
RECURSIVE WordCount(_)
WordCount(s) ==
    LET a == RunLen(s, 1, Whitespace)
        w == RunLen(s, a + 1, Range(s) \ Whitespace)
    IN  IF w = 0 THEN 0 ELSE 1 + WordCount(From(s, a + w + 1))

-----------------------------------------------------------------------------
(* The literals of log_analyzer.py.                                        *)

TIMESTAMP_TOKEN == <<"<", "t", "i", "m", "e", "s", "t", "a", "m", "p", ">">>
SQ_TOKEN == <<"'", "<", "t", "o", "k", "e", "n", ">", "'">>
DQ_TOKEN == <<"\"", "<", "t", "o", "k", "e", "n", ">", "\"">>
LEVELS == << <<"I", "N", "F", "O">>, <<"E", "R", "R", "O", "R">>,
             <<"W", "A", "R", "N">>, <<"D", "E", "B", "U", "G">>,
             <<"F", "A", "T", "A", "L">>, <<"T", "R", "A", "C", "E">> >>
\* [A-Za-z0-9+/=_-], the characters of a token-like string
TokenChars == Letters \cup Digits \cup {"+", "/", "=", "_", "-"}
\* {50,}: the least length of a quoted run that is replaced by <token>
MinTokenLen == 50

-----------------------------------------------------------------------------
(* timestamp_pattern, the prefix the classifier and the normalizer strip.  *)

\* ^\d{4}-\d{2}-\d{2} \d{2}:\d{2}:\d{2} matches at the start of s
HasTimestamp(s) ==
    /\ Len(s) >= 19
    /\ \A i \in {1, 2, 3, 4, 6, 7, 9, 10, 12, 13, 15, 16, 18, 19} : s[i] \in Digits
    /\ s[5] = "-" /\ s[8] = "-" /\ s[11] = " " /\ s[14] = ":" /\ s[17] = ":"
\* (?:[.,]\d+)? at position i: the position after it
AfterFraction(s, i) ==
    IF i <= Len(s) /\ s[i] \in {".", ","} /\ RunLen(s, i + 1, Digits) > 0
    THEN i + 1 + RunLen(s, i + 1, Digits)
    ELSE i
\* \s* at position i: the position after it
AfterSpace(s, i) == i + RunLen(s, i, Whitespace)
\* (?:\|\s*)? at position i: the position after it
AfterBar(s, i) ==
    IF i <= Len(s) /\ s[i] = "|" THEN AfterSpace(s, i + 1) ELSE i
\* (?:INFO|ERROR|WARN|DEBUG|FATAL|TRACE)? at position i: the first alternative
\* that occurs there is taken
AfterLevel(s, i) ==
    IF \E k \in DOMAIN LEVELS : OccursAt(s, i, LEVELS[k])
    THEN i + Len(LEVELS[CHOOSE k \in DOMAIN LEVELS :
                          /\ OccursAt(s, i, LEVELS[k])
                          /\ \A j \in 1..(k - 1) : ~OccursAt(s, i, LEVELS[j])])
    ELSE i
\* The 1-based position after the match of the whole prefix pattern
\* ^TS(?:[.,]\d+)?\s*(?:\|\s*)?(?:LEVEL)?\s*(?:\|\s*)? at the start of s, 0 when
\* it does not match. Nothing mandatory follows an optional part, so the greedy
\* choice of every part is the match re finds.
PrefixEnd(s) ==
    IF ~HasTimestamp(s) THEN 0
    ELSE AfterBar(s, AfterSpace(s, AfterLevel(s, AfterBar(s, AfterSpace(s,
             AfterFraction(s, 20))))))

-----------------------------------------------------------------------------
(* LogAnalyzer._normalize_exception_line                                   *)

\* re.sub(timestamp_pattern, '<timestamp>', s)
SubTimestamp(s) ==
    IF PrefixEnd(s) = 0 THEN s ELSE TIMESTAMP_TOKEN \o From(s, PrefixEnd(s))
\* q[A-Za-z0-9+/=_-]{50,}q matches at position i of s. The closing quote is no
\* token character, so the run between the quotes is the whole run of token
\* characters after the opening quote.
TokenAt(s, i, q) ==
    LET n == RunLen(s, i + 1, TokenChars)
    IN  s[i] = q /\ n >= MinTokenLen /\ i + n + 1 <= Len(s) /\ s[i + n + 1] = q
\* re.sub(q + r"[A-Za-z0-9+/=_-]{50,}" + q, token, s): the leftmost match is
\* replaced and the scan goes on after its closing quote
RECURSIVE SubToken(_, _, _)
SubToken(s, q, token) ==
    LET S == {i \in 1..Len(s) : TokenAt(s, i, q)}
    IN  IF S = {} THEN s
        ELSE LET i == CHOOSE k \in S : \A j \in S : k <= j
             IN  SubSeq(s, 1, i - 1) \o token
                     \o SubToken(From(s, i + RunLen(s, i + 1, TokenChars) + 2), q, token)
\* re.sub(r'^:\s*', '', s)
SubLeadingColon(s) ==
    IF Len(s) > 0 /\ s[1] = ":" THEN From(s, AfterSpace(s, 2)) ELSE s
_normalize_exception_line(line) ==
    IF line = <<>> THEN line
    ELSE SubLeadingColon(
             SubToken(SubToken(Strip(SubTimestamp(line)), "'", SQ_TOKEN),
                      "\"", DQ_TOKEN))

-----------------------------------------------------------------------------
(* LogAnalyzer._extract_exception_type                                     *)

EXCEPTION == <<"E", "x", "c", "e", "p", "t", "i", "o", "n">>
ERROR == <<"E", "r", "r", "o", "r">>
WARNING == <<"W", "a", "r", "n", "i", "n", "g">>
UNKNOWN == <<"U", "n", "k", "n", "o", "w", "n">>
\* The last fallback is "Unknown".
Mutant_BUILD_FAILURE_Unknown == UNKNOWN
BUILD_FAILURE == <<"B", "u", "i", "l", "d", "F", "a", "i", "l", "u", "r", "e">>
\* 'error', 'exception', 'failed', 'fatal'
ERROR_WORDS == { <<"e", "r", "r", "o", "r">>,
                 <<"e", "x", "c", "e", "p", "t", "i", "o", "n">>,
                 <<"f", "a", "i", "l", "e", "d">>, <<"f", "a", "t", "a", "l">> }
\* [A-Za-z_] and [A-Za-z0-9_.]
IdentStart == Letters \cup {"_"}
IdentChars == Letters \cup Digits \cup {"_", "."}

\* The timestamp prefix is left on the line.
Mutant_StripTimestamp_Kept(s) == Strip(s)
\* re.sub(timestamp_pattern, '', s).strip()
StripTimestamp(s) == Strip(IF PrefixEnd(s) = 0 THEN s ELSE From(s, PrefixEnd(s)))
\* The end of group 1 of ^([A-Za-z_][A-Za-z0-9_.]*(?:Exception|Error|Warning))\s*:
\* matched at the start of s, 0 when the pattern does not match. A colon or a
\* whitespace character must follow the group and neither is an identifier
\* character, so the group is the whole leading run of identifier characters;
\* its first character is taken by [A-Za-z_], the suffix by what follows it.
ExceptionPatternEnd(s) ==
    IF Len(s) = 0 \/ s[1] \notin IdentStart THEN 0
    ELSE LET e == 1 + RunLen(s, 2, IdentChars)
             after == AfterSpace(s, e + 1)
         IN  IF /\ \E x \in {EXCEPTION, ERROR, WARNING} :
                       Len(x) < e /\ EndsWith(SubSeq(s, 1, e), x)
                /\ after <= Len(s) /\ s[after] = ":"
             THEN e ELSE 0
\* line.split(':', 1)[0].strip(), for a line with a colon
BeforeColon(s) ==
    Strip(SubSeq(s, 1, RunLen(s, 1, Range(s) \ {":"})))
\* The index is taken before the number of words is looked at.
Mutant_HeadIndexRaises_Unguarded(potential_exception) == Len(potential_exception) = 0
\* len(potential_exception.split()) == 1 and potential_exception[0].isupper():
\* the index raises IndexError on an empty str, and `and` evaluates it only
\* when the str is one word
HeadIndexRaises(potential_exception) ==
    WordCount(potential_exception) = 1 /\ Len(potential_exception) = 0
\* _extract_exception_type(line) raises: the single-word test is reached,
\* after the steps before it have not returned, and its index raises
ExceptionTypeRaises(line) ==
    LET line_without_timestamp == StripTimestamp(line)
        potential_exception == BeforeColon(line_without_timestamp)
    IN  /\ line # <<>>
        /\ line_without_timestamp # <<>>
        /\ ExceptionPatternEnd(line_without_timestamp) = 0
        /\ Contains(line_without_timestamp, <<":">>)
        /\ ~ ( /\ Contains(potential_exception, <<".">>)
               /\ \E x \in {EXCEPTION, ERROR, WARNING} :
                      EndsWith(potential_exception, x) )
        /\ HeadIndexRaises(potential_exception)

_extract_exception_type(line) ==
    IF line = <<>> THEN UNKNOWN
    ELSE LET line_without_timestamp == StripTimestamp(line)
             potential_exception == BeforeColon(line_without_timestamp)
             first_word == FirstWord(line_without_timestamp)
         IN  IF line_without_timestamp = <<>> THEN UNKNOWN
             ELSE IF ExceptionPatternEnd(line_without_timestamp) # 0
             THEN SubSeq(line_without_timestamp, 1,
                         ExceptionPatternEnd(line_without_timestamp))
             ELSE IF /\ Contains(line_without_timestamp, <<":">>)
                     /\ Contains(potential_exception, <<".">>)
                     /\ \E x \in {EXCEPTION, ERROR, WARNING} :
                            EndsWith(potential_exception, x)
             THEN potential_exception
             ELSE IF /\ Contains(line_without_timestamp, <<":">>)
                     /\ WordCount(potential_exception) = 1
                     /\ IsUpper(potential_exception[1])
                     /\ Len(potential_exception) > 3
             THEN potential_exception
             ELSE IF \E w \in ERROR_WORDS : Contains(Lower(first_word), w)
             THEN first_word
             ELSE BUILD_FAILURE

\* what a call raises, in the place of the value it would return
INDEX_ERROR == <<"IndexError">>
\* the outcome of the call _extract_exception_type(line)
ExceptionTypeOutcome(line) ==
    IF ExceptionTypeRaises(line) THEN INDEX_ERROR ELSE _extract_exception_type(line)

-----------------------------------------------------------------------------
(* LogAnalyzer.extract_exception_from_log                                  *)

\* "Build step 'Execute shell' marked build as failure"
BUILD_FAILURE_MARKER ==
    <<"B", "u", "i", "l", "d", " ", "s", "t", "e", "p", " ", "'", "E", "x", "e",
      "c", "u", "t", "e", " ", "s", "h", "e", "l", "l", "'", " ", "m", "a", "r",
      "k", "e", "d", " ", "b", "u", "i", "l", "d", " ", "a", "s", " ", "f", "a",
      "i", "l", "u", "r", "e">>
NO_CLEAR_ERROR == <<"N", "o", " ", "c", "l", "e", "a", "r", " ", "e", "r", "r",
                    "o", "r", " ", "f", "o", "u", "n", "d">>
\* '<method', 'with_traceback', 'of \'', 'objects>', 'raise', 'except', 'try:',
\* 'catch'
FALSE_POSITIVES ==
    { <<"<", "m", "e", "t", "h", "o", "d">>,
      <<"w", "i", "t", "h", "_", "t", "r", "a", "c", "e", "b", "a", "c", "k">>,
      <<"o", "f", " ", "'">>, <<"o", "b", "j", "e", "c", "t", "s", ">">>,
      <<"r", "a", "i", "s", "e">>, <<"e", "x", "c", "e", "p", "t">>,
      <<"t", "r", "y", ":">>, <<"c", "a", "t", "c", "h">> }
\* The number of lines before the failure line that the context takes when the
\* log has no timestamp line
ContextLinesBefore == 10

\* lines[i] of a Python list, i counted from 0
At(lines, i) == lines[i + 1]
\* the indices of lines, counted from 0, that are below `stop`
Below(stop) == 0..(stop - 1)
\* The scan goes forward: the first index that passes the test.
Mutant_LastIndex_Forward(S) == IF S = {} THEN -1 ELSE CHOOSE i \in S : \A j \in S : i <= j
\* for i in range(stop - 1, -1, -1): if test(lines[i]): index = i; break, for
\* the set S of the indices below `stop` that pass the test: the last of them,
\* -1 when there is none
LastIndex(S) == IF S = {} THEN -1 ELSE CHOOSE i \in S : \A j \in S : j <= i
\* re.search(r'\b\w*' + word + r'\s*:', line). Any occurrence of the word that
\* whitespace and a colon follow is a match: \w* reaches back to the start of
\* the run of word characters the word ends, where \b holds.
SearchWordColon(line, word) ==
    \E i \in 1..Len(line) :
        /\ OccursAt(line, i, word)
        /\ AfterSpace(line, i + Len(word)) <= Len(line)
        /\ line[AfterSpace(line, i + Len(word))] = ":"
\* Only the first pattern of the list is looked at.
Mutant_ShouldIgnore_FirstOnly(line, ignore) ==
    ignore # <<>> /\ ignore[1] # <<>> /\ Contains(line, ignore[1])
\* the inner loop over ignore_exceptions
ShouldIgnore(line, ignore) ==
    \E k \in DOMAIN ignore : ignore[k] # <<>> /\ Contains(line, ignore[k])
\* The false positives are not excluded.
Mutant_IsExceptionLine_NoExclusion(line, ignore) ==
    /\ SearchWordColon(line, EXCEPTION) \/ SearchWordColon(line, ERROR)
    /\ ~ShouldIgnore(line, ignore)
\* the test of the backward scan for the exception line
IsExceptionLine(line, ignore) ==
    /\ SearchWordColon(line, EXCEPTION) \/ SearchWordColon(line, ERROR)
    /\ ~\E x \in FALSE_POSITIVES : Contains(line, x)
    /\ ~ShouldIgnore(line, ignore)
\* re.search(pattern, line, re.IGNORECASE) for one of the error_patterns
\* ERROR:, FATAL:, FAILED, Build step.*failed
MatchesErrorPattern(line) ==
    LET l == Lower(line)
    IN  \/ Contains(l, <<"e", "r", "r", "o", "r", ":">>)
        \/ Contains(l, <<"f", "a", "t", "a", "l", ":">>)
        \/ Contains(l, <<"f", "a", "i", "l", "e", "d">>)
        \/ \E i \in 1..Len(l) :
               /\ OccursAt(l, i, <<"b", "u", "i", "l", "d", " ", "s", "t", "e", "p">>)
               /\ Contains(From(l, i + 10), <<"f", "a", "i", "l", "e", "d">>)
\* "error" without its colon counts as an error pattern.
Mutant_IsErrorLine_NoColon(line, ignore) ==
    /\ MatchesErrorPattern(line) \/ Contains(Lower(line), <<"e", "r", "r", "o", "r">>)
    /\ ~ShouldIgnore(line, ignore)
\* the test of the backward scan of the fallback pass
IsErrorLine(line, ignore) == MatchesErrorPattern(line) /\ ~ShouldIgnore(line, ignore)

\* The timestamp index the exception pass anchors the context on: the latest
\* timestamp line, replaced by the nearest one before the exception when it
\* lies after the exception and such a line exists
ExceptionAnchor(lines, latest_timestamp_index, exception_index) ==
    IF latest_timestamp_index # -1 /\ latest_timestamp_index > exception_index
    THEN LET before == LastIndex({i \in Below(exception_index) :
                                     HasTimestamp(At(lines, i))})
         IN  IF before # -1 THEN before ELSE latest_timestamp_index
    ELSE latest_timestamp_index
\* context_start of either pass
ContextStart(timestamp_index, index) ==
    IF timestamp_index # -1 THEN timestamp_index
    ELSE IF index - ContextLinesBefore > 0 THEN index - ContextLinesBefore ELSE 0
\* The marker line is taken into the context.
Mutant_ContextEnd_Inclusive(lines, context_start) ==
    LET S == {i \in context_start..(Len(lines) - 1) :
                  Contains(At(lines, i), BUILD_FAILURE_MARKER)}
    IN  IF S = {} THEN Len(lines) ELSE (CHOOSE i \in S : \A j \in S : i <= j) + 1
\* context_end of either pass: the first index from context_start on whose
\* line contains the marker, len(lines) when there is none
ContextEnd(lines, context_start) ==
    LET S == {i \in context_start..(Len(lines) - 1) :
                  Contains(At(lines, i), BUILD_FAILURE_MARKER)}
    IN  IF S = {} THEN Len(lines) ELSE CHOOSE i \in S : \A j \in S : i <= j
\* lines[context_start:context_end]
ContextLines(lines, context_start, context_end) ==
    SubSeq(lines, context_start + 1, context_end)

\* The returned pair (line, context), with the indices the function computed:
\* index of the returned line (-1 for the sentinel), context_start, context_end
\* and the pass that returned
extract_exception_from_log(content, ignore) ==
    LET lines == SplitLines(Strip(content))
        latest_timestamp_index ==
            LastIndex({i \in Below(Len(lines)) : HasTimestamp(At(lines, i))})
        exception_index ==
            LastIndex({i \in Below(Len(lines)) : IsExceptionLine(At(lines, i), ignore)})
        error_index ==
            LastIndex({i \in Below(Len(lines)) : IsErrorLine(At(lines, i), ignore)})
        Result(index, context_start, pass) ==
            LET context_end == ContextEnd(lines, context_start)
            IN  [line |-> Strip(At(lines, index)),
                 context |-> JoinLines(ContextLines(lines, context_start, context_end)),
                 index |-> index,
                 context_start |-> context_start,
                 context_end |-> context_end,
                 pass |-> pass]
    IN  IF exception_index # -1
        THEN Result(exception_index,
                    ContextStart(ExceptionAnchor(lines, latest_timestamp_index,
                                                 exception_index),
                                 exception_index),
                    "exception")
        ELSE IF error_index # -1
        THEN Result(error_index, ContextStart(latest_timestamp_index, error_index),
                    "fallback")
        ELSE [line |-> NO_CLEAR_ERROR, context |-> <<>>, index |-> -1,
              context_start |-> -1, context_end |-> -1, pass |-> "none"]

-----------------------------------------------------------------------------
(* Python dicts keep insertion order: a dict is the sequence of its items. *)

\* k in d
Has(d, k) == \E i \in DOMAIN d : d[i].key = k
\* d[k], for k in d
Get(d, k) == d[CHOOSE i \in DOMAIN d : d[i].key = k].value
\* d[k] = v: a new key goes to the end, an old key keeps its place
Put(d, k, v) ==
    IF Has(d, k)
    THEN [i \in DOMAIN d |-> IF d[i].key = k THEN [key |-> k, value |-> v] ELSE d[i]]
    ELSE Append(d, [key |-> k, value |-> v])

-----------------------------------------------------------------------------
(* The aggregation of StreamingLogProcessor.process_failed_builds.         *)

LOG_FETCH_ERROR == <<"L", "o", "g", "F", "e", "t", "c", "h", "E", "r", "r", "o", "r">>
FETCH_ERROR_MESSAGE ==
    <<"E", "r", "r", "o", "r", " ", "f", "e", "t", "c", "h", "i", "n", "g", " ",
      "l", "o", "g", " ", "c", "o", "n", "t", "e", "n", "t">>
\* config.IGNORE_EXCEPTIONS with the environment variable unset
IGNORE_EXCEPTIONS == <<>>

\* the value the inner defaultdict makes for a missing exception type
DefaultAggregate == [count |-> 0, unique_messages |-> <<>>]
\* job_exceptions[job_name][exception_type], made on demand by the defaultdicts
Aggregate(je, job_name, exception_type) ==
    IF Has(je, job_name) /\ Has(Get(je, job_name), exception_type)
    THEN Get(Get(je, job_name), exception_type)
    ELSE DefaultAggregate
\* job_exceptions after job_exceptions[job_name][exception_type] is set to agg
WithAggregate(je, job_name, exception_type, agg) ==
    Put(je, job_name,
        Put(IF Has(je, job_name) THEN Get(je, job_name) ELSE <<>>, exception_type, agg))

\* A count of distinct messages instead of occurrences: it is incremented only
\* when the message is new.
Mutant_RecordException_CountsMessages(je, job_name, exception_type, message, build_url) ==
    LET agg == Aggregate(je, job_name, exception_type)
        known == Has(agg.unique_messages, message)
        urls == IF known THEN Get(agg.unique_messages, message) ELSE <<>>
    IN  WithAggregate(je, job_name, exception_type,
            [count |-> IF known THEN agg.count ELSE agg.count + 1,
             unique_messages |->
                 Put(agg.unique_messages, message,
                     IF build_url \in Range(urls) THEN urls ELSE Append(urls, build_url))])
\* The statements that record an analysed build: count += 1, the message gets
\* an empty list when it is new, the URL is appended unless it is in the list
RecordException(je, job_name, exception_type, message, build_url) ==
    LET agg == Aggregate(je, job_name, exception_type)
        with_message == IF Has(agg.unique_messages, message)
                        THEN agg.unique_messages
                        ELSE Put(agg.unique_messages, message, <<>>)
        urls == Get(with_message, message)
    IN  WithAggregate(je, job_name, exception_type,
            [count |-> agg.count + 1,
             unique_messages |->
                 IF build_url \in Range(urls) THEN with_message
                 ELSE Put(with_message, message, Append(urls, build_url))])
\* The URL is listed and the count is left as it was.
Mutant_RecordFetchError_NoCount(je, job_name, build_url) ==
    LET agg == Aggregate(je, job_name, LOG_FETCH_ERROR)
        urls == IF Has(agg.unique_messages, FETCH_ERROR_MESSAGE)
                THEN Get(agg.unique_messages, FETCH_ERROR_MESSAGE) ELSE <<>>
    IN  WithAggregate(je, job_name, LOG_FETCH_ERROR,
            [count |-> agg.count,
             unique_messages |->
                 Put(agg.unique_messages, FETCH_ERROR_MESSAGE, Append(urls, build_url))])
\* A build whose log could not be fetched leaves no record.
Mutant_RecordFetchError_Skipped(je, job_name, build_url) == je
\* The statements that record a build whose log could not be fetched: count += 1
\* under "LogFetchError", the fixed message gets an empty list when it is new,
\* the URL is appended
RecordFetchError(je, job_name, build_url) ==
    LET agg == Aggregate(je, job_name, LOG_FETCH_ERROR)
        with_message == IF Has(agg.unique_messages, FETCH_ERROR_MESSAGE)
                        THEN agg.unique_messages
                        ELSE Put(agg.unique_messages, FETCH_ERROR_MESSAGE, <<>>)
    IN  WithAggregate(je, job_name, LOG_FETCH_ERROR,
            [count |-> agg.count + 1,
             unique_messages |->
                 Put(with_message, FETCH_ERROR_MESSAGE,
                     Append(Get(with_message, FETCH_ERROR_MESSAGE), build_url))])

-----------------------------------------------------------------------------
(* What the collaborators can hand to process_failed_builds.               *)

\* the most builds client.get_failed_builds() returns for a job
MaxBuilds == 2
\* the sequences over S of length at most n
SeqsUpTo(S, n) == UNION {[1..k -> S] : k \in 0..n}
BuildUrls == {"http://ci/job/1/", "http://ci/job/2/"}
\* "2024-01-01 10:00:00 ValueError: bad"
LOG_VALUE_ERROR ==
    <<"2", "0", "2", "4", "-", "0", "1", "-", "0", "1", " ", "1", "0", ":",
      "0", "0", ":", "0", "0", " ", "V", "a", "l", "u", "e", "E", "r", "r",
      "o", "r", ":", " ", "b", "a", "d">>
\* "2024-01-02 11:30:00 ValueError: bad", the same failure at another time
LOG_VALUE_ERROR_LATER ==
    <<"2", "0", "2", "4", "-", "0", "1", "-", "0", "2", " ", "1", "1", ":",
      "3", "0", ":", "0", "0", " ", "V", "a", "l", "u", "e", "E", "r", "r",
      "o", "r", ":", " ", "b", "a", "d">>
\* "ValueError: worse", another message of the same type
LOG_VALUE_ERROR_OTHER ==
    <<"V", "a", "l", "u", "e", "E", "r", "r", "o", "r", ":", " ", "w", "o",
      "r", "s", "e">>
\* the console texts a build can have
ConsoleTexts == {LOG_VALUE_ERROR, LOG_VALUE_ERROR_LATER, LOG_VALUE_ERROR_OTHER}
\* what _fetch_log_content returns: the console text, '' when the request fails
FetchedLogs == ConsoleTexts \cup {<<>>}
\* the lists client.get_jobs() can return; folders can hold jobs of one name
JobLists == {<<>>, <<[name |-> "job-a"]>>,
             <<[name |-> "job-a"], [name |-> "job-b"]>>,
             <<[name |-> "job-a"], [name |-> "job-a"]>>}
\* the lists client.get_failed_builds() can return
BuildLists == SeqsUpTo([url : BuildUrls], MaxBuilds)

\* The three calls on a fetched log: extract_exception_from_log,
\* _extract_exception_type and _normalize_exception_line of the extracted line
Analyze(log) ==
    LET line == extract_exception_from_log(log, IGNORE_EXCEPTIONS).line
    IN  [exception_type |-> _extract_exception_type(line),
         normalized_exception_line |-> _normalize_exception_line(line)]
\* Analyze, computed once for every console text
Analysis == [log \in ConsoleTexts |-> Analyze(log)]

-----------------------------------------------------------------------------
(* StreamingLogProcessor.process_failed_builds, one action per step.       *)

\* record_count after one more record of (job_name, exception_type)
Counted(rc, job_name, exception_type) ==
    LET k == <<job_name, exception_type>>
    IN  [x \in DOMAIN rc \cup {k} |->
            IF x = k THEN (IF k \in DOMAIN rc THEN rc[k] + 1 ELSE 1) ELSE rc[x]]

\* jobs = self.client.get_jobs(); an empty list returns ({}, 0, 0) at once
GetJobs ==
    /\ pc = "get_jobs"
    /\ \E js \in JobLists :
        /\ jobs' = js
        /\ IF js = <<>>
           THEN /\ pc' = "done"
                /\ returned' = <<[job_exceptions |-> <<>>, total_failed_jobs |-> 0,
                                  total_failed_builds |-> 0]>>
           ELSE /\ pc' = "jobs"
                /\ returned' = returned
    /\ last_record' = <<>>
    /\ UNCHANGED <<job_i, failures, build_i, job_has_failures, job_exceptions,
                   total_failed_jobs, total_failed_builds, record_count>>
    /\ UNCHANGED textVars
    /\ UNCHANGED viewVars
    /\ UNCHANGED clientVars

\* get_jobs raises: sys.exit, nothing is returned
GetJobsFails ==
    /\ pc = "get_jobs"
    /\ pc' = "exit"
    /\ last_record' = <<>>
    /\ UNCHANGED <<jobs, job_i, failures, build_i, job_has_failures, job_exceptions,
                   total_failed_jobs, total_failed_builds, returned, record_count>>
    /\ UNCHANGED textVars
    /\ UNCHANGED viewVars
    /\ UNCHANGED clientVars

\* for job in jobs: failures = self.client.get_failed_builds(...); a job without
\* failures is passed over
GetFailedBuilds ==
    /\ pc = "jobs"
    /\ job_i <= Len(jobs)
    /\ \E fs \in BuildLists :
        /\ failures' = fs
        /\ IF fs = <<>>
           THEN /\ job_i' = job_i + 1
                /\ UNCHANGED <<pc, build_i, job_has_failures>>
           ELSE /\ pc' = "builds"
                /\ build_i' = 1
                /\ job_has_failures' = FALSE
                /\ job_i' = job_i
    /\ last_record' = <<>>
    /\ UNCHANGED <<jobs, job_exceptions, total_failed_jobs, total_failed_builds,
                   returned, record_count>>
    /\ UNCHANGED textVars
    /\ UNCHANGED viewVars
    /\ UNCHANGED clientVars

\* get_failed_builds raises: the job is skipped (continue)
GetFailedBuildsFails ==
    /\ pc = "jobs"
    /\ job_i <= Len(jobs)
    /\ job_i' = job_i + 1
    /\ last_record' = <<>>
    /\ UNCHANGED <<pc, jobs, failures, build_i, job_has_failures, job_exceptions,
                   total_failed_jobs, total_failed_builds, returned, record_count>>
    /\ UNCHANGED textVars
    /\ UNCHANGED viewVars
    /\ UNCHANGED clientVars

\* for build in failures: the body of the loop, for the log the fetch returns
ProcessBuild ==
    /\ pc = "builds"
    /\ build_i <= Len(failures)
    /\ \E log_text \in FetchedLogs :
        LET job_name == jobs[job_i].name
            build_url == failures[build_i].url
        IN  IF log_text # <<>>
            THEN /\ job_has_failures' = TRUE
                 /\ total_failed_builds' = total_failed_builds + 1
                 /\ job_exceptions' =
                        RecordException(job_exceptions, job_name,
                                        Analysis[log_text].exception_type,
                                        Analysis[log_text].normalized_exception_line,
                                        build_url)
                 /\ record_count' = Counted(record_count, job_name,
                                            Analysis[log_text].exception_type)
                 /\ last_record' = <<[job |-> job_name,
                                      category |-> Analysis[log_text].exception_type,
                                      message |-> Analysis[log_text].normalized_exception_line,
                                      url |-> build_url]>>
            ELSE /\ job_exceptions' = RecordFetchError(job_exceptions, job_name, build_url)
                 /\ record_count' = Counted(record_count, job_name, LOG_FETCH_ERROR)
                 /\ last_record' = <<[job |-> job_name, category |-> LOG_FETCH_ERROR,
                                      message |-> FETCH_ERROR_MESSAGE, url |-> build_url]>>
                 /\ UNCHANGED <<job_has_failures, total_failed_builds>>
    /\ build_i' = build_i + 1
    /\ UNCHANGED <<pc, jobs, job_i, failures, total_failed_jobs, returned>>
    /\ UNCHANGED textVars
    /\ UNCHANGED viewVars
    /\ UNCHANGED clientVars

\* after the last build of a job: if job_has_failures: total_failed_jobs += 1
EndJob ==
    /\ pc = "builds"
    /\ build_i > Len(failures)
    /\ total_failed_jobs' = IF job_has_failures THEN total_failed_jobs + 1
                            ELSE total_failed_jobs
    /\ job_i' = job_i + 1
    /\ pc' = "jobs"
    /\ last_record' = <<>>
    /\ UNCHANGED <<jobs, failures, build_i, job_has_failures, job_exceptions,
                   total_failed_builds, returned, record_count>>
    /\ UNCHANGED textVars
    /\ UNCHANGED viewVars
    /\ UNCHANGED clientVars

\* The snapshot is handed out after every job while the loop goes on.
Mutant_Return_InsideLoop ==
    /\ pc = "jobs"
    /\ job_i > 1
    /\ returned = <<>>
    /\ returned' = <<[job_exceptions |-> job_exceptions,
                      total_failed_jobs |-> total_failed_jobs,
                      total_failed_builds |-> total_failed_builds]>>
    /\ last_record' = <<>>
    /\ UNCHANGED <<pc, jobs, job_i, failures, build_i, job_has_failures, job_exceptions,
                   total_failed_jobs, total_failed_builds, record_count>>
    /\ UNCHANGED textVars
    /\ UNCHANGED viewVars
    /\ UNCHANGED clientVars
\* after the last job: return dict(job_exceptions), total_failed_jobs,
\* total_failed_builds
Return ==
    /\ pc = "jobs"
    /\ job_i > Len(jobs)
    /\ pc' = "done"
    /\ returned' = <<[job_exceptions |-> job_exceptions,
                      total_failed_jobs |-> total_failed_jobs,
                      total_failed_builds |-> total_failed_builds]>>
    /\ last_record' = <<>>
    /\ UNCHANGED <<jobs, job_i, failures, build_i, job_has_failures, job_exceptions,
                   total_failed_jobs, total_failed_builds, record_count>>
    /\ UNCHANGED textVars
    /\ UNCHANGED viewVars
    /\ UNCHANGED clientVars

\* the state at the call of process_failed_builds; no text function is called
Init ==
    /\ pc = "get_jobs"
    /\ jobs = <<>>
    /\ job_i = 1
    /\ failures = <<>>
    /\ build_i = 1
    /\ job_has_failures = FALSE
    /\ job_exceptions = <<>>
    /\ total_failed_jobs = 0
    /\ total_failed_builds = 0
    /\ returned = <<>>
    /\ record_count = <<>>
    /\ last_record = <<>>
    /\ console_order = <<>>
    /\ slack_order = <<>>
    /\ limit = 0
    /\ offset = 0
    /\ requests = 0
    /\ fallback_requests = 0
    /\ left_on = ""
    /\ log_content = <<>>
    /\ ignore_exceptions = <<>>
    /\ extract_result = <<>>
    /\ exception_line = <<>>
    /\ normalized = <<>>
    /\ classified = <<>>

Next ==
    \/ GetJobs
    \/ GetJobsFails
    \/ GetFailedBuilds
    \/ GetFailedBuildsFails
    \/ ProcessBuild
    \/ EndJob
    \/ Return

Spec == Init /\ [][Next]_vars

-----------------------------------------------------------------------------
(* extract_exception_from_log on its own: every log of a few lines.        *)

\* the most lines of a log, the leading filler lines apart
MaxLogLines == 3
\* the number of filler lines that can lead a log: more than ContextLinesBefore
PadLines == 11
\* "2024-01-01 10:00:00 go"
LINE_TIMESTAMP ==
    <<"2", "0", "2", "4", "-", "0", "1", "-", "0", "1", " ", "1", "0", ":",
      "0", "0", ":", "0", "0", " ", "g", "o">>
\* " ValueError: x "
LINE_VALUE_ERROR ==
    <<" ", "V", "a", "l", "u", "e", "E", "r", "r", "o", "r", ":", " ", "x",
      " ">>
\* "ERROR: y"
LINE_ERROR == <<"E", "R", "R", "O", "R", ":", " ", "y">>
\* "TimeoutError: t"
LINE_TIMEOUT_ERROR ==
    <<"T", "i", "m", "e", "o", "u", "t", "E", "r", "r", "o", "r", ":", " ",
      "t">>
\* "raise KeyError: k"
LINE_RAISE ==
    <<"r", "a", "i", "s", "e", " ", "K", "e", "y", "E", "r", "r", "o", "r",
      ":", " ", "k">>
\* "0 errors"
LINE_PLAIN == <<"0", " ", "e", "r", "r", "o", "r", "s">>
\* "2024-01-01 10:00:01 IOError: z"
LINE_TIMESTAMP_IO_ERROR ==
    <<"2", "0", "2", "4", "-", "0", "1", "-", "0", "1", " ", "1", "0", ":",
      "0", "0", ":", "0", "1", " ", "I", "O", "E", "r", "r", "o", "r", ":",
      " ", "z">>
\* the lines a log is made of
LogLines == {LINE_TIMESTAMP, LINE_VALUE_ERROR, BUILD_FAILURE_MARKER, LINE_ERROR,
             LINE_TIMEOUT_ERROR, LINE_RAISE, LINE_PLAIN, LINE_TIMESTAMP_IO_ERROR,
             <<>>}
\* n filler lines "-"
Filler(n) == [i \in 1..n |-> <<"-">>]
\* the logs: at most MaxLogLines lines, after no or PadLines filler lines
ExtractLogs ==
    {JoinLines(Filler(n) \o ls) : n \in {0, PadLines}, ls \in SeqsUpTo(LogLines, MaxLogLines)}
\* the ignore lists: none, ["TimeoutError", "y"], ["error", ""]
IgnoreLists ==
    { <<>>,
      << <<"T", "i", "m", "e", "o", "u", "t", "E", "r", "r", "o", "r">>, <<"y">> >>,
      << <<"e", "r", "r", "o", "r">>, <<>> >> }

\* the pipeline is not running while a text function is checked on its own
RunIdle ==
    /\ pc = "get_jobs"
    /\ jobs = <<>>
    /\ job_i = 1
    /\ failures = <<>>
    /\ build_i = 1
    /\ job_has_failures = FALSE
    /\ job_exceptions = <<>>
    /\ total_failed_jobs = 0
    /\ total_failed_builds = 0
    /\ returned = <<>>
    /\ record_count = <<>>
    /\ last_record = <<>>
    /\ console_order = <<>>
    /\ slack_order = <<>>
    /\ limit = 0
    /\ offset = 0
    /\ requests = 0
    /\ fallback_requests = 0
    /\ left_on = ""

InitExtract ==
    /\ RunIdle
    /\ log_content \in ExtractLogs
    /\ ignore_exceptions \in IgnoreLists
    /\ extract_result = <<>>
    /\ exception_line = <<>>
    /\ normalized = <<>>
    /\ classified = <<>>

\* the call extract_exception_from_log(log_content, ignore_exceptions)
Extract ==
    /\ extract_result = <<>>
    /\ extract_result' = <<extract_exception_from_log(log_content, ignore_exceptions)>>
    /\ UNCHANGED <<log_content, ignore_exceptions, exception_line, normalized,
                   classified>>
    /\ UNCHANGED runVars
    /\ UNCHANGED viewVars
    /\ UNCHANGED clientVars

NextExtract == Extract

SpecExtract == InitExtract /\ [][NextExtract]_vars

-----------------------------------------------------------------------------
(* _normalize_exception_line on its own, applied to a line and then to its *)
(* own result.                                                             *)

\* the most pieces an input line is made of
MaxChunks == 3
\* "2024-01-01 10:00:00"
CHUNK_TIMESTAMP ==
    <<"2", "0", "2", "4", "-", "0", "1", "-", "0", "1", " ", "1", "0", ":",
      "0", "0", ":", "0", "0">>
\* a quoted run of MinTokenLen token characters
CHUNK_TOKEN == <<"'">> \o [i \in 1..MinTokenLen |-> "A"] \o <<"'">>
\* the pieces: a timestamp, " ", ":", "|", "ERROR", "x", ",5", a quoted token
Chunks == {CHUNK_TIMESTAMP, <<" ">>, <<":">>, <<"|">>,
           <<"E", "R", "R", "O", "R">>, <<"x">>, <<",", "5">>, CHUNK_TOKEN}
\* the concatenation of a sequence of pieces
RECURSIVE Concat(_)
Concat(cs) == IF cs = <<>> THEN <<>> ELSE Head(cs) \o Concat(Tail(cs))
\* the input lines: every concatenation of at most MaxChunks pieces
NormalizeInputs == {Concat(cs) : cs \in SeqsUpTo(Chunks, MaxChunks)}

InitNormalize ==
    /\ RunIdle
    /\ exception_line \in NormalizeInputs
    /\ normalized = <<>>
    /\ classified = <<>>
    /\ log_content = <<>>
    /\ ignore_exceptions = <<>>
    /\ extract_result = <<>>

\* the call _normalize_exception_line(exception_line)
Normalize ==
    /\ normalized = <<>>
    /\ normalized' = <<_normalize_exception_line(exception_line)>>
    /\ UNCHANGED <<log_content, ignore_exceptions, extract_result, exception_line,
                   classified>>
    /\ UNCHANGED runVars
    /\ UNCHANGED viewVars
    /\ UNCHANGED clientVars

\* the call of _normalize_exception_line on the value it returned
NormalizeAgain ==
    /\ Len(normalized) = 1
    /\ normalized' = Append(normalized, _normalize_exception_line(normalized[1]))
    /\ UNCHANGED <<log_content, ignore_exceptions, extract_result, exception_line,
                   classified>>
    /\ UNCHANGED runVars
    /\ UNCHANGED viewVars
    /\ UNCHANGED clientVars

NextNormalize == Normalize \/ NormalizeAgain

SpecNormalize == InitNormalize /\ [][NextNormalize]_vars

-----------------------------------------------------------------------------
(* The three calls process_failed_builds makes on a fetched log, one after *)
(* the other: extract, classify the extracted line, normalize it.          *)

\* "2024-01-01 09:59:00 starting"
LINE_STARTING ==
    <<"2", "0", "2", "4", "-", "0", "1", "-", "0", "1", " ", "0", "9", ":",
      "5", "9", ":", "0", "0", " ", "s", "t", "a", "r", "t", "i", "n", "g">>
\* "2024-01-01 10:00:00 some.pkg.ValueError: bad input"
LINE_PKG_VALUE_ERROR ==
    <<"2", "0", "2", "4", "-", "0", "1", "-", "0", "1", " ", "1", "0", ":",
      "0", "0", ":", "0", "0", " ", "s", "o", "m", "e", ".", "p", "k", "g",
      ".", "V", "a", "l", "u", "e", "E", "r", "r", "o", "r", ":", " ", "b",
      "a", "d", " ", "i", "n", "p", "u", "t">>
\* "some.pkg.ValueError: bad input"
TEXT_PKG_VALUE_ERROR ==
    <<"s", "o", "m", "e", ".", "p", "k", "g", ".", "V", "a", "l", "u", "e",
      "E", "r", "r", "o", "r", ":", " ", "b", "a", "d", " ", "i", "n", "p",
      "u", "t">>
\* "some.pkg.ValueError"
TYPE_PKG_VALUE_ERROR ==
    <<"s", "o", "m", "e", ".", "p", "k", "g", ".", "V", "a", "l", "u", "e",
      "E", "r", "r", "o", "r">>
\* the lines a log is made of
AnalyzeLines == {LINE_STARTING, LINE_PKG_VALUE_ERROR, BUILD_FAILURE_MARKER, LINE_PLAIN}
\* the logs: at most MaxLogLines lines
AnalyzeLogs == {JoinLines(ls) : ls \in SeqsUpTo(AnalyzeLines, MaxLogLines)}
\* the log of the three lines "... starting", "... some.pkg.ValueError: bad
\* input" and the build-failure marker
END_TO_END_LOG == JoinLines(<<LINE_STARTING, LINE_PKG_VALUE_ERROR, BUILD_FAILURE_MARKER>>)

InitAnalyze ==
    /\ RunIdle
    /\ log_content \in AnalyzeLogs
    /\ ignore_exceptions = IGNORE_EXCEPTIONS
    /\ extract_result = <<>>
    /\ exception_line = <<>>
    /\ normalized = <<>>
    /\ classified = <<>>

\* exception_type = self.analyzer._extract_exception_type(exception_line)
ClassifyExtracted ==
    /\ extract_result # <<>>
    /\ classified = <<>>
    /\ classified' = <<ExceptionTypeOutcome(extract_result[1].line)>>
    /\ UNCHANGED <<log_content, ignore_exceptions, extract_result, exception_line,
                   normalized>>
    /\ UNCHANGED runVars
    /\ UNCHANGED viewVars
    /\ UNCHANGED clientVars

\* normalized_exception_line = self.analyzer._normalize_exception_line(exception_line)
NormalizeExtracted ==
    /\ classified # <<>>
    /\ normalized = <<>>
    /\ normalized' = <<_normalize_exception_line(extract_result[1].line)>>
    /\ UNCHANGED <<log_content, ignore_exceptions, extract_result, exception_line,
                   classified>>
    /\ UNCHANGED runVars
    /\ UNCHANGED viewVars
    /\ UNCHANGED clientVars

NextAnalyze == Extract \/ ClassifyExtracted \/ NormalizeExtracted

SpecAnalyze == InitAnalyze /\ [][NextAnalyze]_vars

-----------------------------------------------------------------------------
(* _extract_exception_type on its own: one call on one line.               *)

\* "some text"
TEXT_PLAIN == <<"s", "o", "m", "e", " ", "t", "e", "x", "t">>
\* what exception_line may start with: nothing, or a timestamp with an
\* optional level and optional separators: "2024-01-01 10:00:00 ",
\* "2024-01-01 10:00:00 | ERROR | " and "2024-01-01 10:00:00.123 WARN "
Prefixes ==
    {<<>>,
     CHUNK_TIMESTAMP \o <<" ">>,
     CHUNK_TIMESTAMP \o <<" ", "|", " ", "E", "R", "R", "O", "R", " ", "|", " ">>,
     CHUNK_TIMESTAMP \o <<".", "1", "2", "3", " ", "W", "A", "R", "N", " ">>}
\* dotted identifiers ending in Exception, Error or Warning:
\* "myapp.utils.MyCustomException", "ValueError", "DeprecationWarning",
\* "a.Error" and "ERRORS.FooError"
Identifiers ==
    {<<"m", "y", "a", "p", "p", ".", "u", "t", "i", "l", "s", ".", "M",
       "y", "C", "u", "s", "t", "o", "m", "E", "x", "c", "e", "p", "t",
       "i", "o", "n">>,
     <<"V", "a", "l", "u", "e", "E", "r", "r", "o", "r">>,
     <<"D", "e", "p", "r", "e", "c", "a", "t", "i", "o", "n", "W", "a",
       "r", "n", "i", "n", "g">>,
     <<"a", ".", "E", "r", "r", "o", "r">>,
     <<"E", "R", "R", "O", "R", "S", ".", "F", "o", "o", "E", "r", "r",
       "o", "r">>}
\* the whitespace between the identifier and the colon
Gaps == {<<>>, <<" ">>}
\* what follows the colon: nothing, " boom" or "x"
Tails == {<<>>, <<" ", "b", "o", "o", "m">>, <<"x">>}
\* prefix, identifier, optional whitespace, colon, rest
ExceptionHeadedLines ==
    {p \o id \o g \o <<":">> \o t :
        p \in Prefixes, id \in Identifiers, g \in Gaps, t \in Tails}
\* lines without an exception at their head: "", " ", a timestamp, a
\* timestamp and " ", a timestamp and " | ERROR |", "Unknown", "Unknown: x",
\* ":x", "x:", "build failed", "Fatal problem: disk", "some text", "0 errors",
\* a timestamp and " some text"
OtherLines ==
    {<<>>, <<" ">>, CHUNK_TIMESTAMP, CHUNK_TIMESTAMP \o <<" ">>,
     CHUNK_TIMESTAMP \o <<" ", "|", " ", "E", "R", "R", "O", "R", " ", "|">>,
     UNKNOWN, UNKNOWN \o <<":", " ", "x">>, <<":", "x">>, <<"x", ":">>,
     <<"b", "u", "i", "l", "d", " ", "f", "a", "i", "l", "e", "d">>,
     <<"F", "a", "t", "a", "l", " ", "p", "r", "o", "b", "l", "e", "m",
       ":", " ", "d", "i", "s", "k">>,
     TEXT_PLAIN, LINE_PLAIN, CHUNK_TIMESTAMP \o <<" ">> \o TEXT_PLAIN}
ClassifyInputs == ExceptionHeadedLines \cup OtherLines

InitClassify ==
    /\ RunIdle
    /\ log_content = <<>>
    /\ ignore_exceptions = <<>>
    /\ extract_result = <<>>
    /\ exception_line \in ClassifyInputs
    /\ normalized = <<>>
    /\ classified = <<>>

\* _extract_exception_type(exception_line)
Classify ==
    /\ classified = <<>>
    /\ classified' = <<ExceptionTypeOutcome(exception_line)>>
    /\ UNCHANGED <<log_content, ignore_exceptions, extract_result, exception_line,
                   normalized>>
    /\ UNCHANGED runVars
    /\ UNCHANGED viewVars
    /\ UNCHANGED clientVars

NextClassify == Classify

SpecClassify == InitClassify /\ [][NextClassify]_vars

-----------------------------------------------------------------------------
(* main, after process_failed_builds has returned: the console summary of  *)
(* LogAnalyzer.print_console_summary and the messages of                   *)
(* SlackNotifier.send_all_messages. What is modelled of each is the order  *)
(* in which it goes through the jobs and, within a job, the categories.    *)

\* the characters of the keys, in the order of their code points
CODE_POINTS == <<" ", "-", ".">> \o
               <<"0", "1", "2", "3", "4", "5", "6", "7", "8", "9", ":">> \o
               UpperLetters \o <<"_">> \o LowerLetters
\* ord(c)
CodePoint(c) == CHOOSE i \in DOMAIN CODE_POINTS : CODE_POINTS[i] = c
\* a < b, of two str
StrLess(a, b) ==
    \/ Len(a) < Len(b) /\ SubSeq(b, 1, Len(a)) = a
    \/ \E i \in DOMAIN a \cap DOMAIN b :
        /\ SubSeq(a, 1, i - 1) = SubSeq(b, 1, i - 1)
        /\ CodePoint(a[i]) < CodePoint(b[i])
\* sorted(d.items()): the items in ascending order of their keys
SortedByKey(d) ==
    [r \in DOMAIN d |->
        d[CHOOSE i \in DOMAIN d :
            Cardinality({j \in DOMAIN d : StrLess(d[j].key, d[i].key)}) + 1 = r]]
\* sorted(d.items(), key=..., reverse=True), for keys[i] the sort key of the i-th
\* item: descending, and the sort is stable, so items of equal keys keep their
\* order
SortedDescending(d, keys) ==
    [r \in DOMAIN d |->
        d[CHOOSE i \in DOMAIN d :
            Cardinality({j \in DOMAIN d :
                \/ keys[j] > keys[i]
                \/ keys[j] = keys[i] /\ j < i}) + 1 = r]]
\* sum(data['count'] for data in exceptions.values())
RECURSIVE SumOfCounts(_)
SumOfCounts(exceptions) ==
    IF exceptions = <<>> THEN 0
    ELSE Head(exceptions).value.count + SumOfCounts(Tail(exceptions))
\* the keys of a list of items, in its order
Keys(items) == [i \in DOMAIN items |-> items[i].key]

\* The jobs and their categories, in the order the loops of
\* print_console_summary go through them
print_console_summary(je) ==
    LET sorted_jobs == SortedByKey(je)
    IN  [r \in DOMAIN je |->
            [job |-> sorted_jobs[r].key,
             categories |-> Keys(SortedByKey(sorted_jobs[r].value))]]
\* The categories in the order the loop of send_job_summary goes through them
send_job_summary(exceptions) ==
    Keys(SortedDescending(exceptions,
                          [i \in DOMAIN exceptions |-> exceptions[i].value.count]))
\* The jobs in the order the loop of send_all_messages goes through them, each
\* with what send_job_summary makes of it
send_all_messages(je) ==
    LET sorted_jobs ==
            SortedDescending(je, [i \in DOMAIN je |-> SumOfCounts(je[i].value)])
    IN  [r \in DOMAIN je |->
            [job |-> sorted_jobs[r].key,
             categories |-> send_job_summary(sorted_jobs[r].value)]]

\* the most records of a run
MaxRecords == 3
\* the records of a run: a job ("job-a" or "job-b"), a category, a message
\* and a build reference; the records of the category "LogFetchError" are
\* those of the builds whose log could not be fetched
PresentRecords ==
    [job : {<<"j", "o", "b", "-", "a">>, <<"j", "o", "b", "-", "b">>},
     category : {UNKNOWN, BUILD_FAILURE},
     message : {TEXT_PLAIN}, url : {"http://ci/job/1/"}]
    \cup
    [job : {<<"j", "o", "b", "-", "a">>, <<"j", "o", "b", "-", "b">>},
     category : {LOG_FETCH_ERROR},
     message : {FETCH_ERROR_MESSAGE}, url : {"http://ci/job/1/"}]
\* job_exceptions after the records recs
RECURSIVE RecordAll(_)
RecordAll(recs) ==
    IF recs = <<>> THEN <<>>
    ELSE LET r == recs[Len(recs)]
             je == RecordAll(SubSeq(recs, 1, Len(recs) - 1))
         IN  IF r.category = LOG_FETCH_ERROR
             THEN RecordFetchError(je, r.job, r.url)
             ELSE RecordException(je, r.job, r.category, r.message, r.url)
\* total_failed_builds after the records recs: the builds whose log was fetched
FetchedBuilds(recs) ==
    Cardinality({i \in DOMAIN recs : recs[i].category # LOG_FETCH_ERROR})

\* process_failed_builds has returned, after a run of one job per record,
\* each with one failed build
InitPresent ==
    /\ \E recs \in SeqsUpTo(PresentRecords, MaxRecords) :
        /\ job_exceptions = RecordAll(recs)
        /\ total_failed_builds = FetchedBuilds(recs)
        /\ total_failed_jobs = FetchedBuilds(recs)
    /\ returned = <<[job_exceptions |-> job_exceptions,
                     total_failed_jobs |-> total_failed_jobs,
                     total_failed_builds |-> total_failed_builds]>>
    /\ pc = "done"
    /\ jobs = <<>>
    /\ job_i = 1
    /\ failures = <<>>
    /\ build_i = 1
    /\ job_has_failures = FALSE
    /\ record_count = <<>>
    /\ last_record = <<>>
    /\ console_order = <<>>
    /\ slack_order = <<>>
    /\ limit = 0
    /\ offset = 0
    /\ requests = 0
    /\ fallback_requests = 0
    /\ left_on = ""
    /\ log_content = <<>>
    /\ ignore_exceptions = <<>>
    /\ extract_result = <<>>
    /\ exception_line = <<>>
    /\ normalized = <<>>
    /\ classified = <<>>

\* if total_failed_builds > 0: analyzer.print_console_summary(job_exceptions)
PrintConsoleSummary ==
    /\ pc = "done"
    /\ returned[1].total_failed_builds > 0
    /\ pc' = "printed"
    /\ console_order' = <<print_console_summary(returned[1].job_exceptions)>>
    /\ UNCHANGED slack_order
    /\ UNCHANGED runVarsButPc
    /\ UNCHANGED clientVars
    /\ UNCHANGED textVars

\* The fields of an aggregate that send_job_summary subscripts: data['count']
\* and data['latest_line'].  'build_urls' is asked for with data.get first and
\* subscripted only when that is truthy, so it is not one of them.
SUBSCRIPTED_FIELDS == {"count", "latest_line"}

\* send_job_summary(job_name, exceptions, thread_ts) raises KeyError: some
\* aggregate of the job has no field that the loop over the categories
\* subscripts
SendJobSummaryRaises(exceptions) ==
    \E i \in DOMAIN exceptions :
        \E field \in SUBSCRIPTED_FIELDS : field \notin DOMAIN exceptions[i].value

\* send_all_messages raises KeyError: the loop over the sorted jobs calls
\* send_job_summary outside any try, so the first job that raises ends it
SendAllMessagesRaises(je) ==
    \E i \in DOMAIN je : SendJobSummaryRaises(je[i].value)

\* notifier.send_all_messages(job_exceptions, total_failed_jobs,
\* total_failed_builds) after the console summary; main has no try around it,
\* so a KeyError ends the program
SendAllMessages ==
    /\ pc = "printed"
    /\ pc' = IF SendAllMessagesRaises(returned[1].job_exceptions)
             THEN "KeyError" ELSE "exit"
    /\ slack_order' = <<send_all_messages(returned[1].job_exceptions)>>
    /\ UNCHANGED console_order
    /\ UNCHANGED runVarsButPc
    /\ UNCHANGED clientVars
    /\ UNCHANGED textVars

\* else: notifier.send_all_messages({}, 0, 0)
SendSuccessMessage ==
    /\ pc = "done"
    /\ returned[1].total_failed_builds = 0
    /\ pc' = "exit"
    /\ slack_order' = <<send_all_messages(<<>>)>>
    /\ UNCHANGED console_order
    /\ UNCHANGED runVarsButPc
    /\ UNCHANGED clientVars
    /\ UNCHANGED textVars

NextPresent == PrintConsoleSummary \/ SendAllMessages \/ SendSuccessMessage

SpecPresent == InitPresent /\ [][NextPresent]_vars

-----------------------------------------------------------------------------
(* The three text functions called on one and the same str.                *)

\* the inputs: the lines of ClassifyInputs, the sentinel line, lines of
\* colons and whitespace, and a str of two lines
TotalInputs ==
    ClassifyInputs \cup
    {NO_CLEAR_ERROR, <<":">>, <<" ", ":", " ">>, <<":", ":">>, <<"\n">>,
     <<":", "x", "\n", ":">>, <<"\t", "\n", " ">>, CHUNK_TIMESTAMP \o <<" ", ":">>}

InitTotal ==
    /\ RunIdle
    /\ \E text \in TotalInputs :
        /\ log_content = text
        /\ exception_line = text
    /\ ignore_exceptions = IGNORE_EXCEPTIONS
    /\ extract_result = <<>>
    /\ normalized = <<>>
    /\ classified = <<>>

NextTotal == Extract \/ Classify \/ Normalize

SpecTotal == InitTotal /\ [][NextTotal]_vars

-----------------------------------------------------------------------------
(* JenkinsClient.get_failed_builds, called for one job. A step is one turn *)
(* of the while loop: the request for a batch, what the server answers,    *)
(* and the handling of the answer.                                         *)

\* batch_size
BATCH_SIZE == 1000
\* the offset at which the pagination stops
MAX_OFFSET == 10000
\* the argument cutoff_ms
CUTOFF_MS == 2
\* the largest limit of a call
MaxLimit == 2
\* the most builds of an answer
MaxBatch == 2
\* the limits of a call, zero and a negative one among them
Limits == -1..MaxLimit
\* the builds of an answer: a result and a timestamp before, at or after the
\* cutoff; a build without its timestamp is one that makes b['timestamp'] raise
Builds ==
    [result : {"FAILURE", "SUCCESS"},
     timestamp : {CUTOFF_MS - 1, CUTOFF_MS, CUTOFF_MS + 1}]
    \cup {[result |-> "FAILURE"]}
\* the lists data.get('allBuilds', []) and data.get('builds', []) can be
Batches == SeqsUpTo(Builds, MaxBatch)

\* The list may grow one past the limit.
Mutant_ReachedLimit_OnePast(fs, lim) == Len(fs) > lim
\* if len(failures) >= limit
ReachedLimit(fs, lim) == Len(fs) >= lim
\* for b in builds: the loop over a batch, from the list fs. It stops at a
\* build that raises, at a build older than the cutoff, at the limit, or at
\* the end of the batch; a FAILURE build not older than the cutoff is appended
RECURSIVE ScanBuilds(_, _, _)
ScanBuilds(fs, builds, lim) ==
    IF builds = <<>> THEN [failures |-> fs, stop |-> "end"]
    ELSE LET b == Head(builds)
         IN  IF "timestamp" \notin DOMAIN b THEN [failures |-> fs, stop |-> "raise"]
             ELSE IF b.timestamp < CUTOFF_MS THEN [failures |-> fs, stop |-> "old"]
             ELSE IF b.result = "FAILURE"
             THEN IF ReachedLimit(Append(fs, b), lim)
                  THEN [failures |-> Append(fs, b), stop |-> "limit"]
                  ELSE ScanBuilds(Append(fs, b), Tail(builds), lim)
             ELSE ScanBuilds(fs, Tail(builds), lim)
\* The pagination goes one batch further.
Mutant_PaginationEnds_OnePast(next_offset) == next_offset > MAX_OFFSET
\* if offset >= 10000: break, after offset += batch_size
PaginationEnds(next_offset) == next_offset >= MAX_OFFSET
\* The values of failures at which the try block can raise: at the request,
\* or at a build of the batch the request returned
FailuresAtRaise ==
    {failures} \cup
    {ScanBuilds(failures, builds, limit).failures :
        builds \in {bs \in Batches : ScanBuilds(failures, bs, limit).stop = "raise"}}

\* the call get_failed_builds(job_url, cutoff_ms, limit)
InitFailedBuilds ==
    /\ limit \in Limits
    /\ offset = 0
    /\ requests = 0
    /\ fallback_requests = 0
    /\ left_on = ""
    /\ failures = <<>>
    /\ returned = <<>>
    /\ pc = "while"
    /\ jobs = <<>>
    /\ job_i = 1
    /\ build_i = 1
    /\ job_has_failures = FALSE
    /\ job_exceptions = <<>>
    /\ total_failed_jobs = 0
    /\ total_failed_builds = 0
    /\ record_count = <<>>
    /\ last_record = <<>>
    /\ console_order = <<>>
    /\ slack_order = <<>>
    /\ log_content = <<>>
    /\ ignore_exceptions = <<>>
    /\ extract_result = <<>>
    /\ exception_line = <<>>
    /\ normalized = <<>>
    /\ classified = <<>>

\* what every step of get_failed_builds leaves alone
ClientIdle ==
    /\ UNCHANGED <<jobs, job_i, build_i, job_has_failures, job_exceptions,
                   total_failed_jobs, total_failed_builds, record_count, last_record>>
    /\ UNCHANGED textVars
    /\ UNCHANGED viewVars

\* while len(failures) < limit is false: return failures
LoopExit ==
    /\ pc = "while"
    /\ ~ (Len(failures) < limit)
    /\ pc' = "returned"
    /\ returned' = <<failures>>
    /\ left_on' = "while"
    /\ UNCHANGED <<failures, limit, offset, requests, fallback_requests>>
    /\ ClientIdle

\* A turn of the loop whose try block does not raise: the batch is empty
\* (break), the limit is reached (return), an old build is found (break), or
\* the batch ends and the offset moves on, up to MAX_OFFSET (break)
AllBuilds ==
    /\ pc = "while"
    /\ Len(failures) < limit
    /\ \E builds \in Batches :
        LET scan == ScanBuilds(failures, builds, limit)
            next_offset == IF builds # <<>> /\ scan.stop = "end"
                           THEN offset + BATCH_SIZE ELSE offset
        IN  /\ scan.stop # "raise"
            /\ failures' = scan.failures
            /\ offset' = next_offset
            /\ left_on' = IF builds = <<>> THEN "empty"
                          ELSE IF scan.stop \in {"limit", "old"} THEN scan.stop
                          ELSE IF PaginationEnds(next_offset) THEN "offset"
                          ELSE ""
            /\ IF left_on' # ""
               THEN pc' = "returned" /\ returned' = <<scan.failures>>
               ELSE pc' = "while" /\ returned' = returned
    /\ requests' = requests + 1
    /\ UNCHANGED <<limit, fallback_requests>>
    /\ ClientIdle

\* The try block raises in the first turn: the builds fallback is requested,
\* its builds are scanned up to the limit unless it raises too, and the loop
\* is left
AllBuildsFailsFirst ==
    /\ pc = "while"
    /\ Len(failures) < limit
    /\ offset = 0
    /\ \E partial \in FailuresAtRaise :
        \/ failures' = partial
        \/ \E builds \in Batches :
               failures' = ScanBuilds(partial, builds, limit).failures
    /\ returned' = <<failures'>>
    /\ pc' = "returned"
    /\ requests' = requests + 2
    /\ fallback_requests' = fallback_requests + 1
    /\ left_on' = "error"
    /\ UNCHANGED <<limit, offset>>
    /\ ClientIdle

\* The try block raises in a later turn: the loop is left
AllBuildsFailsLater ==
    /\ pc = "while"
    /\ Len(failures) < limit
    /\ offset # 0
    /\ \E partial \in FailuresAtRaise : failures' = partial
    /\ returned' = <<failures'>>
    /\ pc' = "returned"
    /\ requests' = requests + 1
    /\ left_on' = "error"
    /\ UNCHANGED <<limit, offset, fallback_requests>>
    /\ ClientIdle

NextFailedBuilds == LoopExit \/ AllBuilds \/ AllBuildsFailsFirst \/ AllBuildsFailsLater

SpecFailedBuilds == InitFailedBuilds /\ [][NextFailedBuilds]_vars
\* the call runs on: a turn of the loop that can be taken is taken
SpecFailedBuildsFair == SpecFailedBuilds /\ WF_vars(NextFailedBuilds)

-----------------------------------------------------------------------------
(* Properties of the aggregation, checked under Spec.                      *)

\* the (job, category) pairs that have an aggregate in job_exceptions
AggregatePairs(je) ==
    UNION {{<<je[i].key, je[i].value[j].key>> : j \in DOMAIN je[i].value} : i \in DOMAIN je}
\* sum(len(urls) for urls in unique_messages.values())
RECURSIVE SumOfLens(_)
SumOfLens(um) == IF um = <<>> THEN 0 ELSE Len(Head(um).value) + SumOfLens(Tail(um))
\* no element occurs twice in the sequence q
NoRepeat(q) == \A i, j \in DOMAIN q : q[i] = q[j] => i = j

\* C1: the count of every (job, category) pair equals the number of records
\* made for that pair, fetch failures included, and a pair has an aggregate
\* exactly when a record was made for it.
C1_CountEqualsRecords ==
    /\ AggregatePairs(job_exceptions) = DOMAIN record_count
    /\ \A k \in DOMAIN record_count :
           Aggregate(job_exceptions, k[1], k[2]).count = record_count[k]
\* two records of one analysed message and one build URL: count 2, one URL
C1_Witness ==
    \E k \in DOMAIN record_count :
        /\ k[2] # LOG_FETCH_ERROR
        /\ record_count[k] = 2
        /\ SumOfLens(Aggregate(job_exceptions, k[1], k[2]).unique_messages) = 1

\* C2: every build reference appears at most once in the sequence of a
\* canonical message, in every category and for any list of builds.
C2_BuildRefsDistinct ==
    \A k \in AggregatePairs(job_exceptions) :
        LET um == Aggregate(job_exceptions, k[1], k[2]).unique_messages
        IN  \A m \in DOMAIN um : NoRepeat(um[m].value)

\* C3: for every (job, category) aggregate the lengths of the build-reference
\* sequences of its messages sum to at most its count.
C3_RefsAtMostCount ==
    \A k \in AggregatePairs(job_exceptions) :
        LET agg == Aggregate(job_exceptions, k[1], k[2])
        IN  SumOfLens(agg.unique_messages) <= agg.count
\* an aggregate of two messages whose references sum to its count
C3_Witness ==
    \E k \in AggregatePairs(job_exceptions) :
        LET agg == Aggregate(job_exceptions, k[1], k[2])
        IN  /\ Len(agg.unique_messages) = 2
            /\ SumOfLens(agg.unique_messages) = agg.count

\* C4: a record whose message already lists its build reference adds one to
\* the count and leaves unique_messages as it was.
C4_RepeatedRecordKeepsMessages ==
    [][last_record' # <<>> =>
          LET r == last_record'[1]
              before == Aggregate(job_exceptions, r.job, r.category)
              after == Aggregate(job_exceptions', r.job, r.category)
          IN  (/\ Has(before.unique_messages, r.message)
               /\ r.url \in Range(Get(before.unique_messages, r.message)))
              => /\ after.count = before.count + 1
                 /\ after.unique_messages = before.unique_messages]_vars

-----------------------------------------------------------------------------
(* Properties of the text functions.                                       *)

\* C6, checked under SpecNormalize: normalize(normalize(x)) = normalize(x).
C6_NormalizeIdempotent ==
    Len(normalized) = 2 => normalized[2] = normalized[1]

\* the lines extract_exception_from_log works on
LinesOfLog == SplitLines(Strip(log_content))

\* C7, checked under SpecExtract: no line of the returned context contains
\* the build-failure marker.
C7_ContextExcludesMarker ==
    extract_result # <<>> =>
        \A i \in DOMAIN SplitLines(extract_result[1].context) :
            ~Contains(SplitLines(extract_result[1].context)[i], BUILD_FAILURE_MARKER)
\* a context that is not empty and was cut at a marker line
C7_Witness ==
    /\ extract_result # <<>>
    /\ extract_result[1].index # -1
    /\ extract_result[1].context # <<>>
    /\ extract_result[1].context_end < Len(LinesOfLog)

\* C8, checked under SpecExtract: when a line of the log is returned, the
\* context starts at or before it.
C8_ContextStartsAtOrBeforeLine ==
    (extract_result # <<>> /\ extract_result[1].index # -1) =>
        extract_result[1].context_start <= extract_result[1].index

\* C9 as stated, checked under SpecExtract: the returned line contains no
\* non-empty string of the ignore list.
C9_ReturnedLineNotIgnored ==
    extract_result # <<>> =>
        \A k \in DOMAIN ignore_exceptions :
            ignore_exceptions[k] # <<>> =>
                ~Contains(extract_result[1].line, ignore_exceptions[k])
\* C9, amended: a returned line that is a line of the log (not the sentinel)
\* contains no non-empty string of the ignore list.
C9_SelectedLineNotIgnored ==
    (extract_result # <<>> /\ extract_result[1].index # -1) =>
        \A k \in DOMAIN ignore_exceptions :
            ignore_exceptions[k] # <<>> =>
                ~Contains(extract_result[1].line, ignore_exceptions[k])
\* a line was selected although a later line holds an ignored exception
C9_Witness ==
    /\ extract_result # <<>>
    /\ extract_result[1].index # -1
    /\ \E j \in (extract_result[1].index + 1)..(Len(LinesOfLog) - 1) :
           /\ At(LinesOfLog, j) = LINE_TIMEOUT_ERROR
           /\ \E k \in DOMAIN ignore_exceptions :
                  ignore_exceptions[k] # <<>> /\ Contains(LINE_TIMEOUT_ERROR, ignore_exceptions[k])

\* no line of the log matches the exception signature or a fallback pattern
NoLineMatches ==
    \A i \in DOMAIN SplitLines(log_content) :
        LET line == SplitLines(log_content)[i]
        IN  /\ ~SearchWordColon(line, EXCEPTION)
            /\ ~SearchWordColon(line, ERROR)
            /\ ~MatchesErrorPattern(line)
\* C10, checked under SpecExtract: a log without a matching line gives the
\* pair ("No clear error found", "").
C10_NoMatchGivesSentinel ==
    (extract_result # <<>> /\ NoLineMatches) =>
        /\ extract_result[1].line = NO_CLEAR_ERROR
        /\ extract_result[1].context = <<>>
\* the sentinel for a log of three lines, a timestamp line among them
C10_Witness ==
    /\ extract_result # <<>>
    /\ NoLineMatches
    /\ Len(LinesOfLog) = 3
    /\ \E i \in DOMAIN LinesOfLog : LinesOfLog[i] = LINE_PLAIN
    /\ \E i \in DOMAIN LinesOfLog : LinesOfLog[i] = LINE_TIMESTAMP

\* C11 as stated, checked under SpecAnalyze: on the three-line log the
\* extracted line is "some.pkg.ValueError: bad input", the context is the
\* exception line, the type is "some.pkg.ValueError" and the canonical message
\* holds the timestamp placeholder.
C11_EndToEndAsStated ==
    (log_content = END_TO_END_LOG /\ normalized # <<>>) =>
        /\ extract_result[1].line = TEXT_PKG_VALUE_ERROR
        /\ extract_result[1].context = LINE_PKG_VALUE_ERROR
        /\ classified[1] = TYPE_PKG_VALUE_ERROR
        /\ Contains(normalized[1], TIMESTAMP_TOKEN)
\* C11, amended: the extracted line is the whole exception line, its
\* timestamp included; the canonical message is that line with the timestamp
\* replaced by the placeholder.
C11_EndToEnd ==
    (log_content = END_TO_END_LOG /\ normalized # <<>>) =>
        /\ extract_result[1].line = LINE_PKG_VALUE_ERROR
        /\ extract_result[1].context = LINE_PKG_VALUE_ERROR
        /\ classified[1] = TYPE_PKG_VALUE_ERROR
        /\ normalized[1] = TIMESTAMP_TOKEN \o TEXT_PKG_VALUE_ERROR
\* the three calls were made on the three-line log
C11_Witness == log_content = END_TO_END_LOG /\ normalized # <<>>

\* C12 as stated, checked under SpecClassify: the category is never empty,
\* and it is "Unknown" only when the input line is empty.
C12_UnknownOnlyForEmptyLine ==
    classified # <<>> =>
        /\ classified[1] # <<>>
        /\ (classified[1] = UNKNOWN => exception_line = <<>>)
\* C12, amended: the category is never empty; it is "Unknown" only when
\* nothing is left of the line once the prefix and the surrounding whitespace
\* are removed, or when the text before the first colon is the word
\* "Unknown"; a line with text, without a colon and without an error word in
\* its first word, is a "BuildFailure".
C12_UnknownOnlyForBlankLine ==
    classified # <<>> =>
        LET rest == StripTimestamp(exception_line)
        IN  /\ classified[1] # <<>>
            /\ (classified[1] = UNKNOWN =>
                    \/ rest = <<>>
                    \/ Contains(rest, <<":">>) /\ BeforeColon(rest) = UNKNOWN)
            /\ ( /\ rest # <<>>
                 /\ ~ Contains(rest, <<":">>)
                 /\ \A w \in ERROR_WORDS : ~ Contains(Lower(FirstWord(rest)), w)
                 => classified[1] = BUILD_FAILURE )
\* a line of text that falls through every step was classified
C12_Witness == exception_line = <<"x", ":">> /\ classified = <<BUILD_FAILURE>>

\* C13, checked under SpecClassify: a line made of a prefix, a dotted
\* identifier ending in Exception, Error or Warning, optional whitespace and
\* a colon is classified as that identifier.
C13_ReturnsTheIdentifier ==
    classified # <<>> =>
        \A p \in Prefixes, id \in Identifiers, g \in Gaps, t \in Tails :
            exception_line = p \o id \o g \o <<":">> \o t => classified[1] = id

-----------------------------------------------------------------------------
(* Properties of the presentation, checked under SpecPresent.              *)

\* the position of the key k in the ordered dict d
IndexOf(d, k) == CHOOSE i \in DOMAIN d : d[i].key = k
\* the keys order lists are those of d, from the highest count to the lowest,
\* keys of equal counts in the order d holds them; counts[i] is the count of
\* the i-th item of d
DescendingFirstSeen(d, counts, order) ==
    /\ Len(order) = Len(d)
    /\ \A i \in DOMAIN d : \E r \in DOMAIN order : order[r] = d[i].key
    /\ \A r, q \in DOMAIN order :
        r < q =>
            LET i == IndexOf(d, order[r])
                j == IndexOf(d, order[q])
            IN  \/ counts[i] > counts[j]
                \/ counts[i] = counts[j] /\ i < j
\* what a consumer iterated is in the order the presentation asks for
PresentedInOrder(je, shown) ==
    /\ DescendingFirstSeen(je, [i \in DOMAIN je |-> SumOfCounts(je[i].value)],
                           [r \in DOMAIN shown |-> shown[r].job])
    /\ \A r \in DOMAIN shown :
        LET exceptions == Get(je, shown[r].job)
        IN  DescendingFirstSeen(exceptions,
                                [i \in DOMAIN exceptions |-> exceptions[i].value.count],
                                shown[r].categories)
\* C14: the console summary and the chat notifier go through the jobs from
\* the highest total count to the lowest, and through the categories of a job
\* from the highest count to the lowest, ties in first-seen order.
C14_ConsumersDescendingFirstSeen ==
    /\ console_order # <<>> =>
            PresentedInOrder(returned[1].job_exceptions, console_order[1])
    /\ (slack_order # <<>> /\ returned[1].total_failed_builds > 0) =>
            PresentedInOrder(returned[1].job_exceptions, slack_order[1])

-----------------------------------------------------------------------------
(* Properties of the run on builds whose log cannot be fetched, checked    *)
(* under Spec.                                                             *)

\* the sum of the counts of the categories under job_name, 0 without the key
CountsOfJob(je, job_name) ==
    IF Has(je, job_name) THEN SumOfCounts(Get(je, job_name)) ELSE 0
\* C15 as stated: when the list of failed builds of a job has been processed,
\* the counts of the job's categories add up to the number of builds of the
\* list.
C15_CountsAddUpToTheList ==
    (pc = "builds" /\ build_i > Len(failures)) =>
        CountsOfJob(job_exceptions, jobs[job_i].name) = Len(failures)
\* C15, amended: every build of the list adds exactly one to the counts under
\* the job's name, a build whose log cannot be fetched adds it under
\* "LogFetchError" with the message "Error fetching log content"; the counts
\* add up to the number of builds of the list when no earlier job has the
\* name; the list is left after its last build only, and the run returns
\* after the last job only.
C15_EveryBuildIsRecordedOnce ==
    [][ /\ (pc = "builds" /\ build_i' # build_i) =>
            LET job_name == jobs[job_i].name
                before == Aggregate(job_exceptions, job_name, LOG_FETCH_ERROR)
                after == Aggregate(job_exceptions', job_name, LOG_FETCH_ERROR)
            IN  /\ build_i' = build_i + 1 /\ pc' = "builds"
                /\ CountsOfJob(job_exceptions', job_name)
                       = CountsOfJob(job_exceptions, job_name) + 1
                /\ last_record'[1].category = LOG_FETCH_ERROR =>
                       /\ last_record'[1].message = FETCH_ERROR_MESSAGE
                       /\ after.count = before.count + 1
                       /\ Has(after.unique_messages, FETCH_ERROR_MESSAGE)
                /\ (\A i \in 1..(job_i - 1) : jobs[i].name # job_name) =>
                       CountsOfJob(job_exceptions', job_name) = build_i
        /\ (pc = "builds" /\ pc' # "builds") =>
               pc' = "jobs" /\ build_i = Len(failures) + 1 /\ job_i' = job_i + 1
        /\ (pc = "jobs" /\ pc' = "done") => job_i = Len(jobs) + 1
      ]_vars
\* the log of the first build of a job could not be fetched, the second build
\* of the job and a later job were processed, and the run has returned
C15_Witness ==
    /\ returned # <<>>
    /\ Len(jobs) = 2 /\ jobs[1].name # jobs[2].name
    /\ Aggregate(job_exceptions, jobs[1].name, LOG_FETCH_ERROR).count = 1
    /\ CountsOfJob(job_exceptions, jobs[1].name) = 2
    /\ CountsOfJob(job_exceptions, jobs[2].name) = 1

\* the keys of the ordered dict d after the key k is looked up or set: k goes
\* to the end when it is new
KeysWith(d, k) == IF Has(d, k) THEN Keys(d) ELSE Append(Keys(d), k)
\* C16, checked under Spec: every step that makes a record makes it for the
\* build the inner loop is at and moves on to the next build; the record puts
\* a new job, a new category and a new message after those seen before, and
\* a build reference after those listed for the message unless the message
\* lists it already.
C16_RecordsInSuppliedOrder ==
    [][ last_record' # <<>> =>
            LET r == last_record'[1]
                old_job == IF Has(job_exceptions, r.job)
                           THEN Get(job_exceptions, r.job) ELSE <<>>
                old == Aggregate(job_exceptions, r.job, r.category)
                new == Aggregate(job_exceptions', r.job, r.category)
                urls == IF Has(old.unique_messages, r.message)
                        THEN Get(old.unique_messages, r.message) ELSE <<>>
            IN  /\ pc = "builds" /\ build_i' = build_i + 1
                /\ r.job = jobs[job_i].name
                /\ r.url = failures[build_i].url
                /\ Keys(job_exceptions') = KeysWith(job_exceptions, r.job)
                /\ Keys(Get(job_exceptions', r.job)) = KeysWith(old_job, r.category)
                /\ Keys(new.unique_messages) = KeysWith(old.unique_messages, r.message)
                /\ Get(new.unique_messages, r.message)
                       = IF r.url \in Range(urls) THEN urls ELSE Append(urls, r.url)
      ]_vars

-----------------------------------------------------------------------------
(* Totality of the text functions, checked under SpecTotal.                *)

\* C17: each of the three functions returns a value on every input and none
\* raises: extract returns the sentinel or a line of the log, at an index of
\* the log; classify returns a category, never the IndexError of an empty
\* head; normalize returns a str, the empty str for the empty str.
C17_Total ==
    /\ extract_result # <<>> =>
        LET r == extract_result[1]
        IN  \/ r.pass = "none" /\ r.line = NO_CLEAR_ERROR
            \/ /\ r.pass \in {"exception", "fallback"}
               /\ r.index \in Below(Len(LinesOfLog))
               /\ r.line = Strip(At(LinesOfLog, r.index))
    /\ classified # <<>> =>
        /\ classified[1] # INDEX_ERROR
        /\ classified[1] # <<>>
        /\ \A i \in DOMAIN classified[1] : Len(classified[1][i]) = 1
    /\ normalized # <<>> =>
        /\ \A i \in DOMAIN normalized[1] : Len(normalized[1][i]) = 1
        /\ exception_line = <<>> => normalized[1] = <<>>
\* the three functions were called on a str that starts with a colon
C17_Witness ==
    /\ exception_line = <<":", "x">>
    /\ extract_result # <<>> /\ classified # <<>> /\ normalized # <<>>

-----------------------------------------------------------------------------
(* Properties of the two passes of the extractor, checked under            *)
(* SpecExtract.                                                            *)

\* the line matches the exception/error signature
MatchesSignature(line) ==
    SearchWordColon(line, EXCEPTION) \/ SearchWordColon(line, ERROR)
\* the line contains a false-positive marker
HasFalsePositive(line) == \E x \in FALSE_POSITIVES : Contains(line, x)
\* the indices of the signature lines the exception pass accepts
AcceptedSignatureLines ==
    LET lines == LinesOfLog
    IN  {i \in Below(Len(lines)) :
            /\ MatchesSignature(At(lines, i))
            /\ ~ HasFalsePositive(At(lines, i))
            /\ ~ ShouldIgnore(At(lines, i), ignore_exceptions)}
\* the indices of the error-pattern lines the fallback pass accepts
AcceptedFallbackLines ==
    LET lines == LinesOfLog
    IN  {i \in Below(Len(lines)) :
            /\ MatchesErrorPattern(At(lines, i))
            /\ ~ ShouldIgnore(At(lines, i), ignore_exceptions)}
\* C18: when a signature line is accepted, the returned line is the accepted
\* signature line of highest index, whatever fallback-pattern lines follow
\* it; the fallback pass returns only when no signature line is accepted, and
\* then the accepted fallback line of highest index.
C18_SignaturePassFirst ==
    extract_result # <<>> =>
        LET r == extract_result[1]
            signature == AcceptedSignatureLines
            fallback == IF signature = {} THEN AcceptedFallbackLines ELSE {}
        IN  /\ signature # {} =>
                /\ r.pass = "exception"
                /\ r.index \in signature
                /\ \A i \in signature : i <= r.index
                /\ r.line = Strip(At(LinesOfLog, r.index))
            /\ (signature = {} /\ fallback # {}) =>
                /\ r.pass = "fallback"
                /\ r.index \in fallback
                /\ \A i \in fallback : i <= r.index
                /\ r.line = Strip(At(LinesOfLog, r.index))
\* an accepted signature line was returned although an accepted
\* fallback-pattern line comes after it, and an earlier signature line too
C18_Witness ==
    /\ extract_result # <<>>
    /\ extract_result[1].pass = "exception"
    /\ \E j \in AcceptedFallbackLines : j > extract_result[1].index
    /\ \E j \in AcceptedSignatureLines : j < extract_result[1].index

\* C19 as stated: extract never returns, from either pass, a line that
\* matches the signature and contains a false-positive marker.
C19_NeverReturnsFalsePositive ==
    (extract_result # <<>> /\ extract_result[1].pass # "none") =>
        ~ ( /\ MatchesSignature(extract_result[1].line)
            /\ HasFalsePositive(extract_result[1].line) )
\* C19, amended: the exception pass never returns a line that contains a
\* false-positive marker; such a line is returned by the fallback pass only,
\* when it matches an error pattern and no signature line is accepted.
C19_ExceptionPassRejectsFalsePositive ==
    (extract_result # <<>> /\ extract_result[1].pass # "none") =>
        LET r == extract_result[1]
        IN  HasFalsePositive(r.line) =>
                /\ r.pass = "fallback"
                /\ MatchesErrorPattern(r.line)
                /\ AcceptedSignatureLines = {}
\* the last signature line of the log holds a false-positive marker and the
\* exception pass has returned an earlier line
C19_Witness ==
    /\ extract_result # <<>>
    /\ extract_result[1].pass = "exception"
    /\ LET lines == LinesOfLog
       IN  \E j \in Below(Len(lines)) :
               /\ j > extract_result[1].index
               /\ MatchesSignature(At(lines, j))
               /\ HasFalsePositive(At(lines, j))

-----------------------------------------------------------------------------
(* Properties of get_failed_builds, checked under SpecFailedBuilds.        *)

\* C20: whatever the server answers, the list get_failed_builds holds and
\* returns has at most limit builds, each of them a FAILURE whose timestamp
\* is not older than the cutoff; with a limit of zero or less it returns the
\* empty list and has made no request.
C20_AtMostLimitFailures ==
    /\ Len(failures) <= (IF limit > 0 THEN limit ELSE 0)
    /\ \A i \in DOMAIN failures :
        /\ failures[i].result = "FAILURE"
        /\ failures[i].timestamp >= CUTOFF_MS
    /\ returned # <<>> => returned[1] = failures
    /\ (returned # <<>> /\ limit <= 0) => returned[1] = <<>> /\ requests = 0
\* the try block of the first turn raised, and the builds fallback filled the
\* list up to the limit
C20_Witness ==
    /\ returned # <<>>
    /\ requests = 2 /\ offset = 0
    /\ limit = MaxLimit
    /\ Len(returned[1]) = limit

\* C21, checked under SpecFailedBuildsFair: the call returns, whatever the
\* server answers; it asks for at most 10 allBuilds batches, at the offsets
\* 0, 1000, ..., 9000, and at most once for the builds fallback; the loop is
\* left on an empty batch, on an old build, at the limit, on an error, or
\* after the batch at offset 9000.
C21_Terminates ==
    /\ [](/\ requests - fallback_requests <= 10
          /\ fallback_requests <= 1
          /\ offset \in {1000 * k : k \in 0..10}
          /\ pc = "while" => offset <= 9000 /\ requests = offset \div 1000
          /\ pc = "returned" =>
                /\ left_on \in {"while", "empty", "old", "limit", "error", "offset"}
                /\ left_on = "while" => requests = 0
                /\ left_on = "offset" => requests = 10 /\ offset = 10000
                /\ left_on = "limit" => Len(failures) = limit)
    /\ <>(pc = "returned")
\* the call has returned after ten batches, none of which ended the loop
C21_Witness == pc = "returned" /\ left_on = "offset" /\ requests = 10

\* C22, checked under SpecPresent: when the returned snapshot holds an
\* aggregate, what main sends goes through every job of the snapshot, after
\* the console summary; the empty report is sent only for an empty snapshot.
C22_SnapshotIsPresented ==
    slack_order # <<>> =>
        LET je == returned[1].job_exceptions
        IN  /\ je # <<>> =>
                /\ console_order # <<>>
                /\ {slack_order[1][r].job : r \in DOMAIN slack_order[1]}
                       = {je[i].key : i \in DOMAIN je}
            /\ slack_order[1] = <<>> => je = <<>>

\* C23, checked under SpecPresent: every field that send_all_messages ->
\* send_job_summary subscripts in an aggregate is a field process_failed_builds
\* wrote into it, so once main has handed a snapshot (the returned one, or the
\* empty one when no build was counted) to the notifier the program has
\* reached its exit without a KeyError.
C23_PresentationCompletes ==
    slack_order # <<>> =>
        LET je == IF returned[1].total_failed_builds > 0
                  THEN returned[1].job_exceptions ELSE <<>>
        IN  /\ pc = "exit"
            /\ \A i \in DOMAIN je :
                   \A c \in DOMAIN je[i].value :
                       SUBSCRIPTED_FIELDS \subseteq DOMAIN je[i].value[c].value

====
